---- MODULE Spec2Model ----
(***************************************************************************)
(* A model of the two MCP chat clients of this repository:                 *)
(*   src/mcp_client/mcp_client.py         (MusicMCPClient, playback)       *)
(*   src/mcp_client/config_mcp_client.py  (ConfigMCPClient)                *)
(*                                                                         *)
(* Python strings are modelled as TEXTS: sequences of chunks, each chunk a *)
(* run of characters.  Every string the code looks for (a trigger word, a  *)
(* brace, a quote, a code fence, white space) is a chunk or a sequence of  *)
(* chunks, so that in, split, strip, join, lower, re.search and          *)
(* json.loads / json.dumps are computed on texts the way Python computes   *)
(* them on characters.  JSON values (and Python values) are tagged         *)
(* records [t, v]; a dict is the sequence of its <<key, value>> pairs in   *)
(* insertion order.                                                        *)
(***************************************************************************)
EXTENDS Integers, Sequences, FiniteSets, TLC

\* ------------------------------------------------------------------ chunks
Q == "\""
BS == "\\"
LB == "{"
RB == "}"
LBK == "["
RBK == "]"
COLON == ":"
COMMA == ","
SP == " "
NL == "\n"
\* the code fence, three backquotes (a backquote cannot be written in a string here)
FENCE == "'''"
WS == {SP, NL}

\* The largest number that occurs in a JSON text of the model.
MaxNum == 10

Min(S) == CHOOSE x \in S : \A y \in S : x <= y
Max(S) == CHOOSE x \in S : \A y \in S : x >= y

\* ------------------------------------------------------------ Python str
\* str.lower(), chunk by chunk.
LowerChunk(c) ==
  CASE c = "Phát" -> "phát"
    [] c = "Em" -> "em"
    [] c = "Buồn" -> "buồn"
    [] c = "Quit" -> "quit"
    [] OTHER -> c

Lower(t) == [i \in DOMAIN t |-> LowerChunk(t[i])]

\* sub in t  (a contiguous run of t)
OccursAt(sub, t, i) ==
  /\ i >= 1
  /\ i + Len(sub) - 1 <= Len(t)
  /\ \A k \in 1..Len(sub) : t[i + k - 1] = sub[k]

Contains(sub, t) == \E i \in 1..(Len(t) + 1) : OccursAt(sub, t, i)

\* t.find(sub) + 1, or 0 when sub does not occur
Find(sub, t) ==
  LET S == {i \in 1..(Len(t) + 1) : OccursAt(sub, t, i)}
  IN IF S = {} THEN 0 ELSE Min(S)

\* t.split(sep)[0] and t.split(sep)[1] (the latter only used when sep in t)
Split0(t, sep) ==
  LET i == Find(sep, t) IN IF i = 0 THEN t ELSE SubSeq(t, 1, i - 1)

Split1(t, sep) ==
  LET i == Find(sep, t)
      rest == SubSeq(t, i + Len(sep), Len(t))
  IN Split0(rest, sep)

\* t.strip()
Strip(t) ==
  LET S == {i \in 1..Len(t) : t[i] \notin WS}
  IN IF S = {} THEN <<>> ELSE SubSeq(t, Min(S), Max(S))

\* t.split(): the maximal runs of chunks that are not white space
RECURSIVE Words(_)
Words(t) ==
  LET S == {i \in 1..Len(t) : t[i] \notin WS}
  IN IF S = {} THEN <<>>
     ELSE LET a == Min(S)
              E == {j \in a..Len(t) : t[j] \in WS}
              b == IF E = {} THEN Len(t) + 1 ELSE Min(E)
          IN <<SubSeq(t, a, b - 1)>> \o Words(SubSeq(t, b, Len(t)))

\* sep.join(ws)
RECURSIVE Join(_, _)
Join(sep, ws) ==
  IF ws = <<>> THEN <<>>
  ELSE IF Len(ws) = 1 THEN ws[1]
  ELSE ws[1] \o sep \o Join(sep, Tail(ws))

\* ---------------------------------------------------------- Python values
JNull == [t |-> "null", v |-> 0]
JBool(b) == [t |-> "bool", v |-> b]
JNum(n) == [t |-> "num", v |-> n]
JStr(text) == [t |-> "str", v |-> text]
JList(s) == [t |-> "list", v |-> s]
JObj(pairs) == [t |-> "obj", v |-> pairs]
\* a raised exception, named by its class
Raise(name) == [t |-> "exc", v |-> name]
\* a one-chunk str
S(c) == JStr(<<c>>)

IsExc(x) == x.t = "exc"
IsStr(x) == x.t = "str"
IsDict(x) == x.t = "obj"

\* bool(x)
Truthy(x) ==
  CASE x.t = "null" -> FALSE
    [] x.t = "bool" -> x.v
    [] x.t = "num" -> x.v # 0
    [] OTHER -> x.v # <<>>

\* dict operations on the pairs of a dict; keys are texts
DictHas(d, k) == \E i \in 1..Len(d) : d[i][1] = k
DictIndex(d, k) == CHOOSE i \in 1..Len(d) : d[i][1] = k
DictGet(d, k, default) == IF DictHas(d, k) THEN d[DictIndex(d, k)][2] ELSE default
DictSet(d, k, val) ==
  IF DictHas(d, k) THEN [d EXCEPT ![DictIndex(d, k)] = <<k, val>>]
  ELSE Append(d, <<k, val>>)
DictSetDefault(d, k, val) == IF DictHas(d, k) THEN d ELSE Append(d, <<k, val>>)
DictKeys(d) == {d[i][1] : i \in 1..Len(d)}

\* ------------------------------------------------------------- json.dumps
NumChunk(n) == ToString(n)

\* inside a str a quote is written \" , a backslash \\ and a newline \n ;
\* nothing else of the model needs escaping
EscapeChunk(c) ==
  IF c \in {Q, BS} THEN <<BS, c>>
  ELSE IF c = NL THEN <<BS, "n">>
  ELSE <<c>>

RECURSIVE Escape(_)
Escape(text) ==
  IF text = <<>> THEN <<>> ELSE EscapeChunk(text[1]) \o Escape(Tail(text))

RECURSIVE Dumps(_), DumpItems(_), DumpPairs(_)
Dumps(x) ==
  CASE x.t = "null" -> <<"null">>
    [] x.t = "bool" -> IF x.v THEN <<"true">> ELSE <<"false">>
    [] x.t = "num" -> <<NumChunk(x.v)>>
    [] x.t = "str" -> <<Q>> \o Escape(x.v) \o <<Q>>
    [] x.t = "list" -> <<LBK>> \o DumpItems(x.v) \o <<RBK>>
    [] x.t = "obj" -> <<LB>> \o DumpPairs(x.v) \o <<RB>>

DumpItems(s) ==
  IF s = <<>> THEN <<>>
  ELSE IF Len(s) = 1 THEN Dumps(s[1])
  ELSE Dumps(s[1]) \o <<COMMA, SP>> \o DumpItems(Tail(s))

DumpPairs(d) ==
  IF d = <<>> THEN <<>>
  ELSE LET one == <<Q>> \o Escape(d[1][1]) \o <<Q, COLON, SP>> \o Dumps(d[1][2])
       IN IF Len(d) = 1 THEN one ELSE one \o <<COMMA, SP>> \o DumpPairs(Tail(d))

\* ------------------------------------------------------------- json.loads
SkipWs(t, i) ==
  LET R == {j \in i..Len(t) : t[j] \notin WS}
  IN IF R = {} THEN Len(t) + 1 ELSE Min(R)

ParseFail == [ok |-> FALSE, v |-> JNull, i |-> 0]
Parsed(val, next) == [ok |-> TRUE, v |-> val, i |-> next]

IsNumChunk(c) == \E n \in 0..MaxNum : NumChunk(n) = c
NumOf(c) == CHOOSE n \in 0..MaxNum : NumChunk(n) = c

RECURSIVE Unescape(_)
Unescape(text) ==
  IF text = <<>> THEN <<>>
  ELSE IF text[1] = BS /\ Len(text) >= 2
       THEN <<(IF text[2] = "n" THEN NL ELSE text[2])>> \o Unescape(SubSeq(text, 3, Len(text)))
  ELSE <<text[1]>> \o Unescape(Tail(text))

\* the closing quote of the string opened at i: the first quote that no
\* backslash escapes
RECURSIVE StringEnd(_, _)
StringEnd(t, j) ==
  IF j > Len(t) THEN 0
  ELSE IF t[j] = BS THEN StringEnd(t, j + 2)
  ELSE IF t[j] = Q THEN j
  ELSE StringEnd(t, j + 1)

\* a str ends at its closing quote and holds no raw control character
ParseString(t, i) ==
  LET closed(e) ==
        IF e = 0 \/ \E k \in (i + 1)..(e - 1) : t[k] = NL THEN ParseFail
        ELSE Parsed(Unescape(SubSeq(t, i + 1, e - 1)), e + 1)
  IN closed(StringEnd(t, i + 1))

RECURSIVE ParseValue(_, _), ParseMembers(_, _, _), ParseElements(_, _, _)
ParseValue(t, i0) ==
  LET object(j) == IF j <= Len(t) /\ t[j] = RB THEN Parsed(JObj(<<>>), j + 1)
                   ELSE ParseMembers(t, j, <<>>)
      array(j) == IF j <= Len(t) /\ t[j] = RBK THEN Parsed(JList(<<>>), j + 1)
                  ELSE ParseElements(t, j, <<>>)
      string(r) == IF r.ok THEN Parsed(JStr(r.v), r.i) ELSE ParseFail
      value(i) ==
        IF i > Len(t) THEN ParseFail
        ELSE CASE t[i] = LB -> object(SkipWs(t, i + 1))
               [] t[i] = LBK -> array(SkipWs(t, i + 1))
               [] t[i] = Q -> string(ParseString(t, i))
               [] t[i] = "null" -> Parsed(JNull, i + 1)
               [] t[i] = "true" -> Parsed(JBool(TRUE), i + 1)
               [] t[i] = "false" -> Parsed(JBool(FALSE), i + 1)
               [] OTHER -> IF IsNumChunk(t[i]) THEN Parsed(JNum(NumOf(t[i])), i + 1)
                           ELSE ParseFail
  IN value(SkipWs(t, i0))

\* what follows a member or an element: the closing bracket, or a comma and
\* the position where the next one starts
AfterItem(t, m, close) ==
  IF m > Len(t) THEN "fail"
  ELSE IF t[m] = close THEN "close"
  ELSE IF t[m] = COMMA THEN "more"
  ELSE "fail"

\* "key": value {, "key": value} }   with the pairs read so far in acc
ParseMembers(t, i, acc) ==
  LET rest(m, acc2) ==
        CASE AfterItem(t, m, RB) = "close" -> Parsed(JObj(acc2), m + 1)
          [] AfterItem(t, m, RB) = "more" -> ParseMembers(t, SkipWs(t, m + 1), acc2)
          [] OTHER -> ParseFail
      member(k, val) ==
        IF ~val.ok THEN ParseFail
        ELSE rest(SkipWs(t, val.i), DictSet(acc, k.v, val.v))
      colon(k, c) ==
        IF c > Len(t) \/ t[c] # COLON THEN ParseFail
        ELSE member(k, ParseValue(t, c + 1))
      key(k) == IF ~k.ok THEN ParseFail ELSE colon(k, SkipWs(t, k.i))
  IN IF i > Len(t) \/ t[i] # Q THEN ParseFail
     ELSE key(ParseString(t, i))

\* value {, value} ]
ParseElements(t, i, acc) ==
  LET rest(m, acc2) ==
        CASE AfterItem(t, m, RBK) = "close" -> Parsed(JList(acc2), m + 1)
          [] AfterItem(t, m, RBK) = "more" -> ParseElements(t, m + 1, acc2)
          [] OTHER -> ParseFail
      element(val) ==
        IF ~val.ok THEN ParseFail
        ELSE rest(SkipWs(t, val.i), Append(acc, val.v))
  IN element(ParseValue(t, i))

\* json.loads(t): the value, or the exception json.JSONDecodeError
Loads(t) ==
  LET whole(r) == IF r.ok /\ SkipWs(t, r.i) > Len(t) THEN r.v
                  ELSE Raise("JSONDecodeError")
  IN whole(ParseValue(t, 1))

\* -------------------------------------------------------------- re.search
\* re.search(r'\{[^{}]*"[^"]*"[^{}]*\}', t): the leftmost match, and at that
\* start the one the greedy [^{}]* finds first (the latest first quote).
IsBrace(c) == c \in {LB, RB}

\* the first brace, and the first quote, after position j (0 when none)
NextBrace(t, j) ==
  LET R == {k \in (j + 1)..Len(t) : IsBrace(t[k])} IN IF R = {} THEN 0 ELSE Min(R)
NextQuote(t, j) ==
  LET R == {k \in (j + 1)..Len(t) : t[k] = Q} IN IF R = {} THEN 0 ELSE Min(R)

\* With the first quote of the pattern at q1: [^"]* runs to the next quote
\* q2, the last [^{}]* runs to the next brace, which must be }.  The end of
\* the match, or 0.
RegexEnd(t, q1) ==
  LET q2 == NextQuote(t, q1)
      e == IF q2 = 0 THEN 0 ELSE NextBrace(t, q2)
  IN IF e # 0 /\ t[e] = RB THEN e ELSE 0

\* the first quotes of the matches that start at i: t[i] is { and the first
\* [^{}]* crosses no brace
RegexFirstQuotes(t, i) ==
  IF t[i] # LB THEN {}
  ELSE LET b == NextBrace(t, i)
           last == IF b = 0 THEN Len(t) ELSE b - 1
       IN {q1 \in (i + 1)..last : t[q1] = Q /\ RegexEnd(t, q1) # 0}

RegexStarts(t) == {i \in 1..Len(t) : RegexFirstQuotes(t, i) # {}}

\* json_match.group(), or <<>> when json_match is None
RegexSearch(t) ==
  LET group(i) == SubSeq(t, i, RegexEnd(t, Max(RegexFirstQuotes(t, i))))
      leftmost(starts) == IF starts = {} THEN <<>> ELSE group(Min(starts))
  IN leftmost(RegexStarts(t))


\* k in x  for a str k: TRUE, FALSE, or the TypeError of a value that is not
\* a container
PyIn(k, x) ==
  CASE x.t = "obj" -> JBool(DictHas(x.v, k))
    [] x.t = "list" -> JBool(\E i \in 1..Len(x.v) : x.v[i] = JStr(k))
    [] x.t = "str" -> JBool(Contains(k, x.v))
    [] OTHER -> Raise("TypeError")

\* str(x) as an f-string writes it
PyStr(x) ==
  CASE x.t = "str" -> x.v
    [] x.t = "null" -> <<"None">>
    [] x.t = "bool" -> IF x.v THEN <<"True">> ELSE <<"False">>
    [] x.t = "exc" -> <<x.v>>
    [] OTHER -> Dumps(x)

\* ---------------------------------------------------- the Ollama backend
\* What requests.post gives: a connection failure, or a response with a
\* status and a body.
ConnError == [kind |-> "conn_error", status |-> 0, text |-> <<>>]
Http(status, body) == [kind |-> "http", status |-> status, text |-> body]
\* resp.raise_for_status() raises
IsHttpError(resp) == resp.status >= 400
\* repr of a body inside an error message
Repr(text) == <<"'">> \o text \o <<"'">>

\* data["choices"][0].get("message", {}).get("content", "")
ChoicesContent(data) ==
  LET content(message) ==
        IF message.t # "obj" THEN Raise("AttributeError")
        ELSE DictGet(message.v, <<"content">>, JStr(<<>>))
      of(first) ==
        IF first.t # "obj" THEN Raise("AttributeError")
        ELSE content(DictGet(first.v, <<"message">>, JObj(<<>>)))
      index(choices) ==
        CASE choices.t = "obj" -> Raise("KeyError")
          [] choices.t \in {"num", "bool"} -> Raise("TypeError")
          [] choices.t = "str" -> Raise("AttributeError")
          [] OTHER -> of(choices.v[1])
  IN index(DictGet(data.v, <<"choices">>, JNull))

\* lines 83-91: /api/generate answered with a body
GenerateReply(body) ==
  LET reply(data, text) == IF IsStr(text) THEN text ELSE JStr(Dumps(data))
      read(data) ==
        IF IsExc(data)
        THEN JStr(<<"[Lỗi parse JSON /api/generate: ", data.v, ", body=">> \o Repr(body) \o <<"]">>)
        ELSE IF data.t # "obj" THEN Raise("AttributeError")
        ELSE reply(data, DictGet(data.v, <<"response">>, JNull))
  IN read(Loads(body))

\* lines 108-111 (the same statements are lines 60-63 of
\* config_mcp_client.py): the choices of data, or data written back as JSON
ChoicesReply(data) ==
  LET choices(hasChoices) ==
        IF IsExc(hasChoices) THEN hasChoices
        ELSE IF hasChoices.v /\ data.t # "obj" THEN Raise("TypeError")
        ELSE IF hasChoices.v /\ Truthy(DictGet(data.v, <<"choices">>, JNull))
        THEN ChoicesContent(data)
        ELSE JStr(Dumps(data))
  IN choices(PyIn(<<"choices">>, data))

\* lines 98-111: /api/chat answered 2xx with a body
ChatReply(body) ==
  LET content(data, message) ==
        IF message.t = "obj" /\ IsStr(DictGet(message.v, <<"content">>, JNull))
        THEN DictGet(message.v, <<"content">>, JNull)
        ELSE ChoicesReply(data)
      message(data, hasMessage) ==
        IF IsExc(hasMessage) THEN hasMessage
        ELSE IF hasMessage.v /\ data.t # "obj" THEN Raise("TypeError")
        ELSE IF hasMessage.v THEN content(data, DictGet(data.v, <<"message">>, JNull))
        ELSE ChoicesReply(data)
      read(data) ==
        IF IsExc(data)
        THEN JStr(<<"[Lỗi parse JSON /api/chat: ", data.v, ", body=">> \o Repr(body) \o <<"]">>)
        ELSE message(data, PyIn(<<"message">>, data))
  IN read(Loads(body))

\* call_ollama, given the answer of /api/chat and (used after a 404 only)
\* the answer of /api/generate
call_ollama(chat, gen) ==
  IF chat.kind = "conn_error" THEN JStr(<<"[Lỗi kết nối Ollama /api/chat: ", "ConnectionError", "]">>)
  ELSE IF chat.status = 404 THEN
    IF gen.kind = "conn_error" \/ IsHttpError(gen)
    THEN JStr(<<"[Lỗi gọi Ollama /api/generate: ", "RequestException", "]">>)
    ELSE GenerateReply(gen.text)
  ELSE IF IsHttpError(chat)
    THEN JStr(<<"[Lỗi HTTP /api/chat: ", "HTTPError", ", body=">> \o Repr(chat.text) \o <<"]">>)
  ELSE ChatReply(chat.text)

\* What ask_router gives.  A decision {"mode": mode, "arguments": arguments}
\* ({"tool": ..., "arguments": ...} in config_mcp_client.py, its tool kept in
\* mode); called: the gateway was asked
Decision(mode, arguments, called) ==
  [exc |-> "", mode |-> mode, arguments |-> arguments, called |-> called]
\* ask_router raised
RouterRaised(name) == [exc |-> name, mode |-> JNull, arguments |-> JNull, called |-> TRUE]

\* ------------------------------------- config_mcp_client.py: the gateway
\* t.rindex(sub) + 1, or 0 when sub does not occur
RFind(sub, t) ==
  LET last(R) == IF R = {} THEN 0 ELSE Max(R)
  IN last({i \in 1..(Len(t) + 1) : OccursAt(sub, t, i)})

\* call_ollama_chat, given the answer of /api/chat
call_ollama_chat(resp) ==
  LET content(data, message, hasContent) ==
        IF IsExc(hasContent) THEN hasContent
        ELSE IF ~hasContent.v THEN ChoicesReply(data)
        ELSE IF message.t # "obj" THEN Raise("TypeError")
        ELSE DictGet(message.v, <<"content">>, JNull)
      inner(data, message) == content(data, message, PyIn(<<"content">>, message))
      message(data, hasMessage) ==
        IF IsExc(hasMessage) THEN hasMessage
        ELSE IF hasMessage.v /\ data.t # "obj" THEN Raise("TypeError")
        ELSE IF hasMessage.v THEN inner(data, DictGet(data.v, <<"message">>, JNull))
        ELSE ChoicesReply(data)
      read(data) ==
        IF IsExc(data) THEN JStr(<<"Lỗi gọi Ollama: ", data.v>>)
        ELSE message(data, PyIn(<<"message">>, data))
  IN IF resp.kind = "conn_error" THEN JStr(<<"Lỗi gọi Ollama: ", "ConnectionError">>)
     ELSE IF IsHttpError(resp) THEN JStr(<<"Lỗi gọi Ollama: ", "HTTPError">>)
     ELSE read(Loads(resp.text))

\* {"tool": "none", "arguments": {}, "raw": raw}
JsonFallback(raw) ==
  JObj(<< <<<<"tool">>, S("none")>>, <<<<"arguments">>, JObj(<<>>)>>, <<<<"raw">>, raw>> >>)

\* call_ollama_for_json, with raw what call_ollama_chat returned
call_ollama_for_json(raw) ==
  LET sliced(second) == IF IsExc(second) THEN JsonFallback(raw) ELSE second
      slice(start, end) ==
        IF start = 0 \/ end = 0 THEN JsonFallback(raw)
        ELSE sliced(Loads(SubSeq(raw.v, start, end)))
      whole(first) ==
        IF ~IsExc(first) THEN first
        ELSE slice(Find(<<LB>>, raw.v), RFind(<<RB>>, raw.v))
  IN IF IsExc(raw) THEN raw
     ELSE IF ~IsStr(raw) THEN JsonFallback(raw)
     ELSE whole(Loads(raw.v))

\* ConfigMCPClient.ask_router, lines 213-221, with result what
\* call_ollama_for_json returned
Config_ask_router(result) ==
  LET normal(tool, arguments) ==
        Decision(tool, IF arguments.t = "obj" THEN arguments ELSE JObj(<<>>), TRUE)
  IN IF IsExc(result) THEN RouterRaised(result.v)
     ELSE IF result.t # "obj" THEN RouterRaised("AttributeError")
     ELSE normal(DictGet(result.v, <<"tool">>, S("none")),
                 DictGet(result.v, <<"arguments">>, JObj(<<>>)))

\* line 236 without the registry test: every name but "none" is dispatched
DowngradeNoneOnly(tool_name, registry) ==
  IF tool_name = S("none") THEN "chat"
  ELSE IF tool_name.t = "str" THEN "tool"
  ELSE "chat"

\* tool_name == "none" or tool_name not in self.tools  (line 236): "chat",
\* "tool", or the TypeError of a name that cannot be hashed
Downgrade(tool_name, registry) ==
  IF tool_name = S("none") THEN "chat"
  ELSE IF tool_name.t \in {"list", "obj"} THEN "TypeError"
  ELSE IF tool_name.t = "str" /\ DictHas(registry, tool_name.v) THEN "tool"
  ELSE "chat"

\* ------------------------------------------------------- MusicMCPClient
action_words ==
  {<<"phát">>, <<"mở">>, <<"bật">>, <<"nghe">>, <<"play">>, <<"bài">>, <<"nhạc">>,
   <<"cho">>, <<"tôi">>, <<"tớ">>, <<"mình">>}

RECURSIVE CleanedWords(_)
CleanedWords(words) ==
  IF words = <<>> THEN <<>>
  ELSE (IF words[1] \in action_words THEN <<>> ELSE <<words[1]>>) \o CleanedWords(Tail(words))

\* _clean_query_from_user_input(query)
_clean_query_from_user_input(query) ==
  IF ~IsStr(query) THEN Raise("AttributeError")
  ELSE JStr(Strip(Join(<<SP>>, CleanedWords(Words(Lower(query.v))))))

name_keys == <<"track_name", "name", "title", "song_name">>
path_keys == <<"file_path", "path", "file", "filepath">>

\* the loop with the test  if key in track_data:  alone: a present alias is
\* taken even when its value is empty
RECURSIVE FirstAliasPresent(_, _, _, _)
FirstAliasPresent(track_data, keys, i, default) ==
  LET step(has) ==
        IF IsExc(has) THEN has
        ELSE IF ~has.v THEN FirstAliasPresent(track_data, keys, i + 1, default)
        ELSE IF track_data.t # "obj" THEN Raise("TypeError")
        ELSE DictGet(track_data.v, <<keys[i]>>, JNull)
  IN IF i > Len(keys) THEN default ELSE step(PyIn(<<keys[i]>>, track_data))

\* the loop  for key in keys: if key in track_data and track_data[key]: ...
\* from the i-th key on: the value found, default when none is, or the
\* exception of the first test that raises
RECURSIVE FirstAlias(_, _, _, _)
FirstAlias(track_data, keys, i, default) ==
  LET step(has) ==
        IF IsExc(has) THEN has
        ELSE IF ~has.v THEN FirstAlias(track_data, keys, i + 1, default)
        ELSE IF track_data.t # "obj" THEN Raise("TypeError")
        ELSE IF Truthy(DictGet(track_data.v, <<keys[i]>>, JNull))
             THEN DictGet(track_data.v, <<keys[i]>>, JNull)
        ELSE FirstAlias(track_data, keys, i + 1, default)
  IN IF i > Len(keys) THEN default ELSE step(PyIn(<<keys[i]>>, track_data))

\* _extract_track_info(track_data): [name, path], or [exc] when it raises
_extract_track_info(track_data) ==
  LET info(track_name, file_path) ==
        IF IsExc(track_name) THEN [exc |-> track_name.v, name |-> JNull, path |-> JNull]
        ELSE IF IsExc(file_path) THEN [exc |-> file_path.v, name |-> JNull, path |-> JNull]
        ELSE [exc |-> "", name |-> track_name, path |-> file_path]
  IN info(FirstAlias(track_data, name_keys, 1, JStr(<<"Unknown track">>)),
          FirstAlias(track_data, path_keys, 1, JNull))

\* extract_tracks without its first branch: a wrapper is taken for a record
extract_tracks_flat(data) ==
  IF data.t = "list" THEN data.v
  ELSE IF data.t = "obj" THEN <<data>>
  ELSE <<>>

\* extract_tracks(data), the inner function of _parse_tool_result
RECURSIVE extract_tracks(_)
extract_tracks(data) ==
  IF data.t = "obj" /\ DictHas(data.v, <<"result">>)
  THEN extract_tracks(DictGet(data.v, <<"result">>, JNull))
  ELSE IF data.t = "list" THEN data.v
  ELSE IF data.t = "obj" THEN <<data>>
  ELSE <<>>

\* A CallToolResult with its structuredContent (None is JNull)
ToolResult(content) == [t |-> "toolresult", v |-> content]

\* _parse_tool_result with line 232 returning [data]: a list is taken for
\* one record
_parse_tool_result_wrapping(tool_result) ==
  IF ~Truthy(tool_result.v) THEN <<>>
  ELSE IF tool_result.v.t = "list" THEN <<tool_result.v>>
  ELSE extract_tracks(tool_result.v)

\* _parse_tool_result(tool_result)
_parse_tool_result(tool_result) ==
  IF Truthy(tool_result.v) THEN extract_tracks(tool_result.v) ELSE <<>>


\* ----------------------------------------------- MusicMCPClient.ask_router
PlayTriggers == {<<"phát">>, <<"mở">>, <<"bật">>, <<"nghe">>, <<"play">>}
ListTriggers ==
  {<<"danh", SP, "sách">>, <<"liệt", SP, "kê">>, <<"hiển", SP, "thị">>,
   <<"có", SP, "những", SP, "bài">>, <<"tất", SP, "cả">>}
SearchTriggers == {<<"tìm">>, <<"gợi", SP, "ý">>, <<"nhạc">>, <<"bài", SP, "hát">>}

\* any(word in query_lower for word in triggers)
AnyIn(triggers, query_lower) == \E word \in triggers : Contains(word, query_lower)

AllowedModes == {S("chat"), S("list"), S("search"), S("search_and_play")}

\* lines 291-302: the text handed to json.loads
ExtractJsonText(raw) ==
  LET search(text, json_match) == IF json_match # <<>> THEN json_match ELSE text
      unfenced(text) ==
        IF Contains(<<FENCE, "json">>, text)
        THEN Strip(Split0(Split1(text, <<FENCE, "json">>), <<FENCE>>))
        ELSE IF Contains(<<FENCE>>, text)
        THEN Strip(Split0(Split1(text, <<FENCE>>), <<FENCE>>))
        ELSE text
      matched(text) == search(text, RegexSearch(text))
      fences(text) == matched(unfenced(text))
  IN fences(Strip(raw))

\* lines 316-317 left out: the mode the model wrote is kept
AnyMode(mode) == mode

\* lines 316-317: a mode outside the four becomes chat
AllowedMode(mode) == IF mode \in AllowedModes THEN mode ELSE S("chat")

\* lines 304-330: from the text to the decision
DecisionFromText(query, text) ==
  LET searching(mode, arguments, cleaned) ==
        IF IsExc(cleaned) THEN RouterRaised(cleaned.v)
        ELSE Decision(mode,
               JObj(DictSetDefault(DictSet(arguments.v, <<"query">>, cleaned), <<"limit">>,
                                   IF mode = S("search") THEN JNum(5) ELSE JNum(1))),
               TRUE)
      defaults(mode, arguments) ==
        IF mode \in {S("search"), S("search_and_play")} THEN
          IF arguments.t # "obj" THEN RouterRaised("TypeError")
          ELSE searching(mode, arguments,
                 _clean_query_from_user_input(DictGet(arguments.v, <<"query">>, JStr(query))))
        ELSE IF mode = S("list") THEN
          IF arguments.t # "obj" THEN RouterRaised("AttributeError")
          ELSE Decision(mode, JObj(DictSetDefault(arguments.v, <<"limit">>, JNum(10))), TRUE)
        ELSE Decision(mode, arguments, TRUE)
      checked(mode0, arguments0) ==
        defaults(AllowedMode(mode0), IF Truthy(arguments0) THEN arguments0 ELSE JObj(<<>>))
      decide(parsed) ==
        IF IsExc(parsed) THEN Decision(S("chat"), JObj(<<>>), TRUE)
        ELSE IF parsed.t # "obj" THEN Decision(S("chat"), JObj(<<>>), TRUE)
        ELSE checked(DictGet(parsed.v, <<"mode">>, S("chat")),
                     DictGet(parsed.v, <<"arguments">>, JObj(<<>>)))
  IN decide(Loads(text))

\* lines 288-330 with raw the value call_ollama returned (or raised)
ModelFallback(query, raw) ==
  IF IsExc(raw) THEN RouterRaised(raw.v)
  ELSE IF ~IsStr(raw) THEN RouterRaised("AttributeError")
  ELSE DecisionFromText(query, ExtractJsonText(raw.v))

\* ask_router without lines 259-272: the rules are skipped and the model is
\* asked about every query
ask_router_model_first(query, raw) == ModelFallback(query, raw)

\* ask_router with the rules of lines 259-272 in the order search, list, play
ask_router_search_first(query, raw) ==
  LET query_lower == Lower(query)
  IN IF AnyIn(SearchTriggers, query_lower)
     THEN Decision(S("search"),
            JObj(<< <<<<"query">>, _clean_query_from_user_input(JStr(query))>>,
                    <<<<"limit">>, JNum(5)>> >>), FALSE)
     ELSE IF AnyIn(ListTriggers, query_lower)
     THEN Decision(S("list"), JObj(<< <<<<"limit">>, JNum(10)>> >>), FALSE)
     ELSE IF AnyIn(PlayTriggers, query_lower)
     THEN Decision(S("search_and_play"),
            JObj(<< <<<<"query">>, _clean_query_from_user_input(JStr(query))>>,
                    <<<<"limit">>, JNum(1)>> >>), FALSE)
     ELSE ModelFallback(query, raw)

\* ask_router(query), with raw what call_ollama returns if it is called
Music_ask_router(query, raw) ==
  LET query_lower == Lower(query)
  IN IF AnyIn(PlayTriggers, query_lower)
     THEN Decision(S("search_and_play"),
            JObj(<< <<<<"query">>, _clean_query_from_user_input(JStr(query))>>,
                    <<<<"limit">>, JNum(1)>> >>), FALSE)
     ELSE IF AnyIn(ListTriggers, query_lower)
     THEN Decision(S("list"), JObj(<< <<<<"limit">>, JNum(10)>> >>), FALSE)
     ELSE IF AnyIn(SearchTriggers, query_lower)
     THEN Decision(S("search"),
            JObj(<< <<<<"query">>, _clean_query_from_user_input(JStr(query))>>,
                    <<<<"limit">>, JNum(5)>> >>), FALSE)
     ELSE ModelFallback(query, raw)


\* --------------------------------------------- MusicMCPClient.process_query
\* a reply or a failure of process_query's body
InternalError(name) == JStr(<<"Lỗi nội bộ: ", name>>)
NotConnected == JStr(<<"Chưa kết nối MCP server.">>)
\* the message of lines 361 and 388 without the tool's name
ToolErrorUnnamed(tool, name) == JStr(<<"Lỗi khi gọi tool: ", name>>)
ToolError(tool, name) == JStr(<<"Lỗi khi gọi tool '", tool, "': ", name>>)
NoFilesReply == JStr(<<"Không tìm thấy file nhạc nào trong thư mục cấu hình.">>)
NotFoundReply(search_query) ==
  JStr(<<"Không tìm thấy bài hát nào trùng với từ khóa '">> \o PyStr(search_query) \o <<"'.">>)
ListHeader == <<"Danh sách nhạc có sẵn:", NL>>
ListHint == <<NL, NL, "Bạn có thể yêu cầu 'phát [tên bài]'.">>
SearchHeader(n, q) ==
  <<"Tìm thấy ", NumChunk(n), " bài phù hợp với '">> \o PyStr(q) \o <<"':", NL>>
SearchHint == <<NL, NL, "Gõ 'phát [tên bài]'.">>
PlayingReply(track_name) ==
  JStr(<<"Playing: **">> \o PyStr(track_name) \o <<"**", NL, NL, "Bài hát phù hợp nhất.">>)
NoPathReply(track_name) ==
  JStr(<<"Không thể phát bài '">> \o PyStr(track_name) \o <<"'. File path không tồn tại trong dữ liệu.">>)
MissingFileReply(track_name, file_path) ==
  JStr(<<"Không thể phát bài '">> \o PyStr(track_name) \o <<"'. File không tồn tại: ">> \o PyStr(file_path))

\* tracks without the slice of lines 370 and 400: every track is shown
SliceAll(tracks, limit) == [exc |-> "", v |-> tracks]

\* tracks[:limit]: [exc, v]
Slice(tracks, limit) ==
  LET upto(k) == SubSeq(tracks, 1, IF k < Len(tracks) THEN k ELSE Len(tracks))
  IN CASE limit.t = "num" -> [exc |-> "", v |-> upto(limit.v)]
       [] limit.t = "bool" -> [exc |-> "", v |-> upto(IF limit.v THEN 1 ELSE 0)]
       [] limit.t = "null" -> [exc |-> "", v |-> tracks]
       [] OTHER -> [exc |-> "TypeError", v |-> <<>>]

\* the loop  for i, track in enumerate(shown, 1): track_list.append(f"{i}. {track_name}")
\* from the i-th track on: [exc, lines]
RECURSIVE TrackLines(_, _)
TrackLines(shown, i) ==
  LET line(info, rest) ==
        IF rest.exc # "" THEN rest
        ELSE [exc |-> "",
              lines |-> <<(<<NumChunk(i), ". ">> \o PyStr(info.name))>> \o rest.lines]
      track(info) ==
        IF info.exc # "" THEN [exc |-> info.exc, lines |-> <<>>]
        ELSE line(info, TrackLines(shown, i + 1))
  IN IF i > Len(shown) THEN [exc |-> "", lines |-> <<>>]
     ELSE track(_extract_track_info(shown[i]))

\* What the rest of process_query does once the router has answered:
\*   answer  the value returned to chat_loop
\*   calls   the session.call_tool invocations, in order
\*   gw      how many times call_ollama ran
\*   tracks  the normalized result (<<>> when no tool answered)
\*   play    the path handed to play_audio_from_path, or JNull
Outcome(answer, calls, gw, tracks, play) ==
  [answer |-> answer, calls |-> calls, gw |-> gw, tracks |-> tracks, play |-> play]

ToolCall(name, arguments) == [name |-> name, arguments |-> arguments]

\* lines 344-351
ChatBranch(chatValue) ==
  Outcome(IF IsExc(chatValue) THEN InternalError(chatValue.v) ELSE chatValue,
          <<>>, 1, <<>>, JNull)

\* lines 368-375 and 399-407: the numbered names of tracks[:limit] between a
\* header and a hint, or the failure of the loop
Listing(header, tracks, limit, hint, calls) ==
  LET text(listed) ==
        IF listed.exc # "" THEN Outcome(InternalError(listed.exc), calls, 0, tracks, JNull)
        ELSE Outcome(JStr(header \o Join(<<NL>>, listed.lines) \o hint), calls, 0, tracks, JNull)
      lines(shown) ==
        IF shown.exc # "" THEN Outcome(InternalError(shown.exc), calls, 0, tracks, JNull)
        ELSE text(TrackLines(shown.v, 1))
  IN lines(Slice(tracks, limit))

\* lines 354-376 without the test of line 365: an empty result is listed
ListBranchUnguarded(args, toolOutcome) ==
  LET called(limit, calls) ==
        IF IsExc(toolOutcome)
        THEN Outcome(ToolError("list_local_music", toolOutcome.v), calls, 0, <<>>, JNull)
        ELSE Listing(ListHeader, _parse_tool_result(toolOutcome), limit, ListHint, calls)
      call(limit) ==
        called(limit, <<ToolCall("list_local_music", JObj(<< <<<<"limit">>, limit>> >>))>>)
  IN call(DictGet(args.v, <<"limit">>, JNum(10)))

\* lines 354-376
ListBranch(args, toolOutcome) ==
  LET normalized(limit, calls, tracks) ==
        IF tracks = <<>> THEN Outcome(NoFilesReply, calls, 0, tracks, JNull)
        ELSE Listing(ListHeader, tracks, limit, ListHint, calls)
      called(limit, calls) ==
        IF IsExc(toolOutcome)
        THEN Outcome(ToolError("list_local_music", toolOutcome.v), calls, 0, <<>>, JNull)
        ELSE normalized(limit, calls, _parse_tool_result(toolOutcome))
      call(limit) ==
        called(limit, <<ToolCall("list_local_music", JObj(<< <<<<"limit">>, limit>> >>))>>)
  IN call(DictGet(args.v, <<"limit">>, JNum(10)))

\* lines 410-428 without os.path.exists on line 420: a locator is played
\* whether or not its file is there
PlayFirstUnchecked(selected, calls, tracks, exists) ==
  IF selected.exc # "" THEN Outcome(InternalError(selected.exc), calls, 0, tracks, JNull)
  ELSE IF Truthy(selected.path)
       THEN Outcome(PlayingReply(selected.name), calls, 0, tracks, selected.path)
  ELSE Outcome(NoPathReply(selected.name), calls, 0, tracks, JNull)

\* lines 410-428: search_and_play with a result that is not empty
PlayFirst(selected, calls, tracks, exists) ==
  IF selected.exc # "" THEN Outcome(InternalError(selected.exc), calls, 0, tracks, JNull)
  ELSE IF Truthy(selected.path) /\ exists
       THEN Outcome(PlayingReply(selected.name), calls, 0, tracks, selected.path)
  ELSE IF ~Truthy(selected.path)
       THEN Outcome(NoPathReply(selected.name), calls, 0, tracks, JNull)
  ELSE Outcome(MissingFileReply(selected.name, selected.path), calls, 0, tracks, JNull)

\* lines 379-428
SearchBranch(query, mode, args, toolOutcome, exists) ==
  LET normalized(search_query, limit, calls, tracks) ==
        IF tracks = <<>> THEN Outcome(NotFoundReply(search_query), calls, 0, tracks, JNull)
        ELSE IF mode = S("search")
        THEN Listing(SearchHeader(Len(tracks), DictGet(args.v, <<"query">>, JStr(<<>>))),
                     tracks, limit, SearchHint, calls)
        ELSE PlayFirst(_extract_track_info(tracks[1]), calls, tracks, exists)
      called(search_query, limit, calls) ==
        IF IsExc(toolOutcome)
        THEN Outcome(ToolError("search_local_music", toolOutcome.v), calls, 0, <<>>, JNull)
        ELSE normalized(search_query, limit, calls, _parse_tool_result(toolOutcome))
      call(search_query, limit) ==
        called(search_query, limit,
               <<ToolCall("search_local_music",
                          JObj(<< <<<<"query">>, search_query>>, <<<<"limit">>, limit>> >>))>>)
  IN call(DictGet(args.v, <<"query">>, _clean_query_from_user_input(JStr(query))),
          DictGet(args.v, <<"limit">>, JNum(5)))


\* ------------------------------------------------------------ the inputs
P(k, val) == <<<<k>>, val>>
EmptyObj == JObj(<<>>)
ModeArgs(mode, arguments) == JObj(<<P("mode", mode), P("arguments", arguments)>>)
\* {"result": x}
W(x) == JObj(<<P("result", x)>>)

\* What the user types
Queries ==
  { <<"phát", SP, "bài", SP, "Em">>,
    <<"Phát", SP, "nhạc">>,
    <<"danh", SP, "sách", SP, "nhạc">>,
    <<"tìm", SP, "nhạc", SP, "Buồn">>,
    <<"play", SP, "tất", SP, "cả">>,
    <<"play", "list">>,
    <<"bài", SP, "hát">>,
    <<"hello">>,
    <<SP, "thời", SP, "tiết", NL>>,
    <<SP>>,
    <<"exit">>,
    <<"Quit">> }

\* What the router model writes
RouterRaws ==
  { Dumps(ModeArgs(S("chat"), EmptyObj)),
    Dumps(ModeArgs(S("list"), EmptyObj)),
    Dumps(ModeArgs(S("search"), EmptyObj)),
    Dumps(ModeArgs(S("search_and_play"), EmptyObj)),
    Dumps(ModeArgs(S("search"),
            JObj(<<P("query", JStr(<<"Phát", SP, "Buồn">>)), P("limit", JNum(3))>>))),
    Dumps(ModeArgs(S("list"), JObj(<<P("limit", JNum(2))>>))),
    Dumps(ModeArgs(S("chat"), JObj(<<P("topic", S("weather"))>>))),
    Dumps(ModeArgs(S("search"),
            JObj(<<P("query", JStr(<<"Phát", SP, "Buồn">>)), P("opts", EmptyObj)>>))),
    Dumps(ModeArgs(S("list"), JObj(<<P("limit", JNum(0)), P("opts", EmptyObj)>>))),
    Dumps(ModeArgs(S("search"), JObj(<<P("limit", JNum(2)), P("opts", EmptyObj)>>))),
    Dumps(ModeArgs(S("search"), JObj(<<P("query", JNum(5)), P("opts", EmptyObj)>>))),
    Dumps(ModeArgs(S("dance"), EmptyObj)),
    Dumps(ModeArgs(JList(<<S("list")>>), EmptyObj)),
    Dumps(JObj(<<P("arguments", EmptyObj)>>)),
    Dumps(JObj(<<P("mode", S("list"))>>)),
    Dumps(ModeArgs(S("list"), JList(<<JNum(1)>>))),
    Dumps(ModeArgs(S("search"), S("em"))),
    Dumps(ModeArgs(S("chat"), S("x"))),
    <<"Sure!", SP, FENCE, "json", NL>> \o Dumps(ModeArgs(S("list"), EmptyObj)) \o <<NL, FENCE>>,
    <<FENCE, NL>> \o Dumps(ModeArgs(S("search_and_play"), EmptyObj)) \o <<NL, FENCE, NL>>,
    <<"OK:", SP>> \o Dumps(JObj(<<P("mode", S("list"))>>)) \o <<SP, "nhé">>,
    <<"xin", SP, "chào">>,
    <<LBK, "1", RBK>>,
    <<"null">>,
    <<"5">>,
    <<Q, "chat", Q>>,
    <<>> }

\* an /api/chat answer {"message": {"role": "assistant", "content": c}}
MessageBody(c) ==
  Dumps(JObj(<<P("message", JObj(<<P("role", S("assistant")), P("content", c)>>))>>))
\* an OpenAI-style answer {"choices": x}
ChoicesBody(x) == Dumps(JObj(<<P("choices", x)>>))

Backend(chat, gen) == [chat |-> chat, gen |-> gen]

\* What the Ollama backend answers to one call_ollama
Backends ==
  {Backend(Http(200, MessageBody(JStr(raw))), ConnError) : raw \in RouterRaws}
  \cup
  { Backend(ConnError, ConnError),
    Backend(Http(500, <<"oops">>), ConnError),
    Backend(Http(200, <<"<html>">>), ConnError),
    Backend(Http(200, <<"null">>), ConnError),
    Backend(Http(200, <<LBK, RBK>>), ConnError),
    Backend(Http(200, <<LBK, Q, "message", Q, RBK>>), ConnError),
    Backend(Http(200, MessageBody(JNull)), ConnError),
    Backend(Http(200, Dumps(JObj(<<P("message", S("hi"))>>))), ConnError),
    Backend(Http(200, ChoicesBody(JList(<<JObj(<<P("message", JObj(<<P("content", S("hi"))>>))>>)>>))), ConnError),
    Backend(Http(200, ChoicesBody(JList(<<JObj(<<P("message", JObj(<<P("content", JNull)>>))>>)>>))), ConnError),
    Backend(Http(200, ChoicesBody(JList(<<JObj(<<P("message", JObj(<<P("content", JNum(5))>>))>>)>>))), ConnError),
    Backend(Http(200, ChoicesBody(JList(<<EmptyObj>>))), ConnError),
    Backend(Http(200, ChoicesBody(JList(<<S("x")>>))), ConnError),
    Backend(Http(200, ChoicesBody(JList(<<>>))), ConnError),
    Backend(Http(200, ChoicesBody(JObj(<<P("a", JNum(1))>>))), ConnError),
    Backend(Http(404, <<>>), ConnError),
    Backend(Http(404, <<>>), Http(500, <<"oops">>)),
    Backend(Http(404, <<>>), Http(200, <<"<html>">>)),
    Backend(Http(404, <<>>), Http(200, <<LBK, RBK>>)),
    Backend(Http(404, <<>>), Http(200, Dumps(JObj(<<P("response", JNull)>>)))),
    Backend(Http(404, <<>>), Http(200, Dumps(JObj(<<P("response", JStr(Dumps(ModeArgs(S("list"), EmptyObj))))>>)))) }

T1 ==
  JObj(<<P("track_id", JNum(1)), P("track_name", S("Em")), P("artist_name", JNull),
         P("album_name", JNull), P("file_path", S("/music/em.mp3"))>>)
T2 == JObj(<<P("name", S("Buồn")), P("path", S("/music/buon.mp3"))>>)
T3 ==
  JObj(<<P("track_name", JStr(<<>>)), P("title", S("Remix")), P("file_path", JStr(<<>>)),
         P("file", S("/music/remix.mp3"))>>)
T4 == JObj(<<P("track_id", JNum(2))>>)
\* every alias filled, written in the reverse of the order the code tries
T5 ==
  JObj(<<P("filepath", S("/d.mp3")), P("file", S("/c.mp3")), P("path", S("/b.mp3")),
         P("file_path", S("/music/em.mp3")), P("song_name", S("D")), P("title", S("C")),
         P("name", S("B")), P("track_name", S("A"))>>)

\* How deep the model nests {"result": ...} around a payload
MaxDepth == 3

\* x inside n wrappers {"result": ...}
RECURSIVE Wrap(_, _)
Wrap(x, n) == IF n = 0 THEN x ELSE W(Wrap(x, n - 1))

TrackLists == {JList(<<>>), JList(<<T1, T2>>), JList(<<T2, T1>>), JList(<<T3>>)}

\* What session.call_tool gives: an exception or a CallToolResult
ToolOutcomes ==
  {ToolResult(Wrap(L, n)) : L \in TrackLists, n \in 0..MaxDepth}
  \cup
  { Raise("McpError"),
    ToolResult(JNull),
    ToolResult(EmptyObj),
    ToolResult(JList(<<T1, T4, T3>>)),
    ToolResult(JList(<<T5, T2>>)),
    ToolResult(T1),
    ToolResult(W(T4)),
    ToolResult(JObj(<<P("result", JList(<<T3, T1>>)), P("count", JNum(2))>>)),
    ToolResult(JObj(<<P("name", S("Meta")), P("result", W(JList(<<T2>>)))>>)),
    ToolResult(W(S("oops"))),
    ToolResult(W(JNull)),
    ToolResult(W(JList(<<JNum(5)>>))),
    ToolResult(W(JList(<<T4>>))) }

\* How many playback threads the model lets the client start
MaxWorkers == 2

\* ------------------------------------------------------------- the state
VARIABLES
  pc,          \* where main() of mcp_client.py is: start, input, called, routed, answered, exit, done
  session,     \* self.session is set
  query,       \* the stripped input being processed
  router,      \* what ask_router returned
  routerRaw,   \* what call_ollama returned to ask_router (JNull when it was not called)
  answer,      \* what process_query returned
  gwCalls,     \* call_ollama invocations of the current query
  toolCalls,   \* session.call_tool invocations of the current query
  toolOut,     \* what session.call_tool gave (JNull when it was not called)
  tracks,      \* _parse_tool_result of it
  workers,     \* the threads play_audio_from_path started, in order
  mixerFlag,   \* _mixer_initialized
  mixer,       \* pygame.mixer: init, the loaded file, busy, successful init() calls
  tools        \* ConfigMCPClient: self.tools, tool name -> the session that serves it

queryVars == <<query, router, routerRaw, answer, gwCalls, toolCalls, toolOut, tracks>>
playVars == <<workers, mixerFlag, mixer>>
vars == <<pc, tools, session, queryVars, playVars>>

NoDecision == [exc |-> "", mode |-> JNull, arguments |-> JNull, called |-> FALSE]

ResetQuery ==
  /\ query' = <<>>
  /\ router' = NoDecision
  /\ routerRaw' = JNull
  /\ answer' = JNull
  /\ gwCalls' = 0
  /\ toolCalls' = <<>>
  /\ toolOut' = JNull
  /\ tracks' = <<>>

Init ==
  /\ pc = "start"
  /\ tools = <<>>
  /\ session = FALSE
  /\ query = <<>>
  /\ router = NoDecision
  /\ routerRaw = JNull
  /\ answer = JNull
  /\ gwCalls = 0
  /\ toolCalls = <<>>
  /\ toolOut = JNull
  /\ tracks = <<>>
  /\ workers = <<>>
  /\ mixerFlag = FALSE
  /\ mixer = [init |-> FALSE, loaded |-> JNull, busy |-> FALSE, inits |-> 0]

\* play_audio_from_path running _worker(path) itself: it returns once the
\* track has been started
play_audio_joined(path) ==
  workers' = Append(workers, [pc |-> "wait", p |-> path, played |-> TRUE])

\* play_audio_from_path(path): start the thread and return
play_audio_from_path(path) ==
  workers' = Append(workers, [pc |-> "check", p |-> path, played |-> FALSE])

\* main(): connect_to_server succeeds, or raises and main goes to cleanup
Connect ==
  /\ pc = "start"
  /\ \E ok \in BOOLEAN :
       /\ session' = ok
       /\ pc' = IF ok THEN "input" ELSE "exit"
  /\ UNCHANGED <<tools, queryVars, playVars>>

\* chat_loop handing every line it reads to process_query
ReadInputUnfiltered(typed) ==
  /\ pc = "input"
  /\ \E text \in typed :
       /\ pc' = "called"
       /\ query' = Strip(text)
       /\ UNCHANGED <<router, routerRaw, answer, gwCalls, toolCalls, toolOut, tracks>>
  /\ UNCHANGED <<tools, session, playVars>>

\* chat_loop, lines 447-457: read a line
ReadInput(typed) ==
  /\ pc = "input"
  /\ \E text \in typed :
       LET q == Strip(text)
       IN IF q = <<>> THEN UNCHANGED <<pc, queryVars>>
          ELSE IF Lower(q) \in {<<"exit">>, <<"quit">>}
          THEN pc' = "exit" /\ UNCHANGED queryVars
          ELSE /\ pc' = "called"
               /\ query' = q
               /\ UNCHANGED <<router, routerRaw, answer, gwCalls, toolCalls, toolOut, tracks>>
  /\ UNCHANGED <<tools, session, playVars>>

\* chat_loop at EOF or Ctrl-C
EndOfInput ==
  /\ pc = "input"
  /\ pc' = "exit"
  /\ UNCHANGED <<tools, session, queryVars, playVars>>

HasRule(q) ==
  \/ AnyIn(PlayTriggers, Lower(q))
  \/ AnyIn(ListTriggers, Lower(q))
  \/ AnyIn(SearchTriggers, Lower(q))

\* process_query, lines 333-341, with r what ask_router gives
Routed(r, raw) ==
  /\ router' = r
  /\ routerRaw' = IF r.called THEN raw ELSE JNull
  /\ gwCalls' = IF r.called THEN 1 ELSE 0
  /\ IF r.exc # ""
     THEN pc' = "answered" /\ answer' = InternalError(r.exc)
     ELSE pc' = "routed" /\ UNCHANGED answer

RouteWith(raw) == Routed(Music_ask_router(query, raw), raw)

Route(backends) ==
  /\ pc = "called"
  /\ IF ~session
     THEN /\ pc' = "answered"
          /\ answer' = NotConnected
          /\ UNCHANGED <<router, routerRaw, gwCalls>>
     ELSE \E b \in backends : RouteWith(call_ollama(b.chat, b.gen))
  /\ UNCHANGED <<tools, session, query, toolCalls, toolOut, tracks, playVars>>

Finish(out, received) ==
  /\ pc' = "answered"
  /\ answer' = out.answer
  /\ gwCalls' = gwCalls + out.gw
  /\ toolCalls' = out.calls
  /\ toolOut' = received
  /\ tracks' = out.tracks
  /\ UNCHANGED <<tools, session, query, router, routerRaw>>

\* process_query in chat mode
DispatchChat(backends) ==
  /\ pc = "routed"
  /\ router.mode = S("chat")
  /\ \E b \in backends : Finish(ChatBranch(call_ollama(b.chat, b.gen)), JNull)
  /\ UNCHANGED playVars

\* process_query in list mode
DispatchList(outcomes) ==
  /\ pc = "routed"
  /\ router.mode = S("list")
  /\ \E o \in outcomes : Finish(ListBranch(router.arguments, o), o)
  /\ UNCHANGED playVars

\* process_query in search and search_and_play mode
DispatchSearch(outcomes) ==
  /\ pc = "routed"
  /\ router.mode \in {S("search"), S("search_and_play")}
  /\ \E o \in outcomes, exists \in BOOLEAN :
       \E out \in {SearchBranch(query, router.mode, router.arguments, o, exists)} :
          /\ Finish(out, o)
          /\ IF out.play = JNull THEN UNCHANGED workers
             ELSE Len(workers) < MaxWorkers /\ play_audio_from_path(out.play)
  /\ UNCHANGED <<mixerFlag, mixer>>

\* chat_loop, line 460: print the answer and go back to input
PrintAnswer ==
  /\ pc = "answered"
  /\ pc' = "input"
  /\ ResetQuery
  /\ UNCHANGED <<tools, session, playVars>>

\* main(), finally: cleanup() quits the mixer; the daemon threads end with the process
Cleanup ==
  /\ pc = "exit"
  /\ pc' = "done"
  /\ mixer' = [mixer EXCEPT !.init = FALSE, !.busy = FALSE]
  /\ workers' = <<>>
  /\ UNCHANGED <<tools, session, queryVars, mixerFlag>>

\* ------------------------------------ play_audio_from_path._worker, by step
\* Each thread runs _worker(p) one statement at a time; nothing orders the
\* statements of two threads (there is no lock in the module).
Pipeline == <<pc, tools, session, queryVars>>

AtStep(i, step) == i \in 1..Len(workers) /\ workers[i].pc = step
Goto(i, step) == workers' = [workers EXCEPT ![i].pc = step]

\* init_mixer_once, line 31: if _mixer_initialized: return
WCheck(i) ==
  /\ AtStep(i, "check")
  /\ Goto(i, IF mixerFlag THEN "ready" ELSE "init")
  /\ UNCHANGED <<mixerFlag, mixer, Pipeline>>

\* init_mixer_once, lines 33-38: pygame.mixer.init() succeeds and the flag is
\* set, or it raises and the flag stays
WInit(i) ==
  /\ AtStep(i, "init")
  /\ \E ok \in BOOLEAN :
       IF ok
       THEN /\ mixer' = [mixer EXCEPT !.init = TRUE, !.inits = @ + 1]
            /\ mixerFlag' = TRUE
       ELSE UNCHANGED <<mixerFlag, mixer>>
  /\ Goto(i, "ready")
  /\ UNCHANGED Pipeline

\* lines 123-128: the two early returns
WReady(i) ==
  /\ AtStep(i, "ready")
  /\ \E exists \in BOOLEAN : Goto(i, IF mixer.init /\ exists THEN "stop" ELSE "done")
  /\ UNCHANGED <<mixerFlag, mixer, Pipeline>>

\* line 132: pygame.mixer.music.stop()
WStop(i) ==
  /\ AtStep(i, "stop")
  /\ mixer' = [mixer EXCEPT !.busy = FALSE]
  /\ Goto(i, "load")
  /\ UNCHANGED <<mixerFlag, Pipeline>>

\* line 133: pygame.mixer.music.load(p) replaces the loaded music and stops
\* the stream, or raises (a file pygame cannot read) and the thread ends
WLoad(i) ==
  /\ AtStep(i, "load")
  /\ \E ok \in BOOLEAN :
       IF ok
       THEN /\ mixer' = [mixer EXCEPT !.loaded = workers[i].p, !.busy = FALSE]
            /\ Goto(i, "play")
       ELSE /\ UNCHANGED mixer
            /\ Goto(i, "done")
  /\ UNCHANGED <<mixerFlag, Pipeline>>

\* line 134: pygame.mixer.music.play() starts the loaded music
WPlay(i) ==
  /\ AtStep(i, "play")
  /\ mixer' = [mixer EXCEPT !.busy = TRUE]
  /\ workers' = [workers EXCEPT ![i].pc = "wait", ![i].played = TRUE]
  /\ UNCHANGED <<mixerFlag, Pipeline>>

\* lines 137-140: the loop ends when get_busy() is false
WDone(i) ==
  /\ AtStep(i, "wait")
  /\ ~mixer.busy
  /\ Goto(i, "done")
  /\ UNCHANGED <<mixerFlag, mixer, Pipeline>>

\* the stream reaches the end of the file
TrackEnds ==
  /\ mixer.busy
  /\ mixer' = [mixer EXCEPT !.busy = FALSE]
  /\ UNCHANGED <<workers, mixerFlag, Pipeline>>

Next ==
  \/ Connect
  \/ ReadInput(Queries)
  \/ EndOfInput
  \/ Route(Backends)
  \/ DispatchChat(Backends)
  \/ DispatchList(ToolOutcomes)
  \/ DispatchSearch(ToolOutcomes)
  \/ PrintAnswer
  \/ Cleanup

Spec == Init /\ [][Next]_vars

\* ------------------------------------------- the client with its threads
\* The same pipeline on few inputs, and the playback threads it starts.
PlayQueries ==
  { <<"phát", SP, "bài", SP, "Em">>,
    <<"play", SP, "Buồn">>,
    <<"danh", SP, "sách", SP, "nhạc">>,
    <<"hello">> }

PlayBackends ==
  { Backend(Http(200, MessageBody(JStr(Dumps(ModeArgs(S("chat"), EmptyObj))))), ConnError),
    Backend(ConnError, ConnError) }

PlayOutcomes ==
  { ToolResult(Wrap(JList(<<T1, T2>>), 1)),
    ToolResult(Wrap(JList(<<T2, T1>>), 2)) }

NextPlay ==
  \/ Connect
  \/ ReadInput(PlayQueries)
  \/ EndOfInput
  \/ Route(PlayBackends)
  \/ DispatchChat(PlayBackends)
  \/ DispatchList(PlayOutcomes)
  \/ DispatchSearch(PlayOutcomes)
  \/ PrintAnswer
  \/ Cleanup
  \/ \E i \in 1..MaxWorkers : WCheck(i)
  \/ \E i \in 1..MaxWorkers : WInit(i)
  \/ \E i \in 1..MaxWorkers : WReady(i)
  \/ \E i \in 1..MaxWorkers : WStop(i)
  \/ \E i \in 1..MaxWorkers : WLoad(i)
  \/ \E i \in 1..MaxWorkers : WPlay(i)
  \/ \E i \in 1..MaxWorkers : WDone(i)
  \/ TrackEnds

SpecPlay == Init /\ [][NextPlay]_vars

\* ------------------------------------------------------- ConfigMCPClient
\* config["servers"]: each server with its id and the names list_tools gives
Server(id, names) == [id |-> id, tools |-> names]
ServerConfs ==
  { <<>>,
    <<Server("idle", <<>>)>>,
    <<Server("music", <<"list_local_music", "search_local_music">>)>>,
    <<Server("music", <<"list_local_music">>),
      Server("mail", <<"gmail_list_today_unread", "list_local_music">>)>> }

\* connect_all_servers, lines 142-150: the tools of the k-th server are
\* recorded with its session, over what an earlier server recorded
RECURSIVE AddTools(_, _, _)
AddTools(registry, names, k) ==
  IF names = <<>> THEN registry
  ELSE AddTools(DictSet(registry, <<names[1]>>, k), Tail(names), k)

\* self.tools once the first n servers of conf have connected
RECURSIVE Registry(_, _)
Registry(conf, n) ==
  IF n = 0 THEN <<>> ELSE AddTools(Registry(conf, n - 1), conf[n].tools, n)

ToolArgs(tool, arguments) == JObj(<<P("tool", tool), P("arguments", arguments)>>)

\* What the router model writes
ConfigRaws ==
  { Dumps(ToolArgs(S("none"), EmptyObj)),
    Dumps(ToolArgs(S("list_local_music"), JObj(<<P("limit", JNum(2))>>))),
    Dumps(ToolArgs(S("gmail_list_today_unread"), EmptyObj)),
    Dumps(ToolArgs(S("ghost"), JObj(<<P("limit", JNum(2))>>))),
    Dumps(ToolArgs(S("list_local_music"), JList(<<JNum(1)>>))),
    Dumps(JObj(<<P("arguments", JObj(<<P("limit", JNum(2))>>))>>)),
    Dumps(JObj(<<P("tool", S("list_local_music"))>>)),
    Dumps(ToolArgs(JList(<<S("list_local_music")>>), EmptyObj)),
    Dumps(ToolArgs(JNum(5), EmptyObj)),
    Dumps(ToolArgs(JNull, EmptyObj)),
    <<"OK:", SP>> \o Dumps(ToolArgs(S("list_local_music"), EmptyObj)) \o <<SP, "nhé">>,
    <<RB, SP, LB>>,
    <<LB, "oops", RB>>,
    <<LBK, "1", RBK>>,
    <<LBK, LB, RB, RBK>>,
    <<"null">>,
    <<"5">>,
    <<Q, "chat", Q>>,
    <<"xin", SP, "chào">>,
    <<>> }

\* What the Ollama backend answers to one call_ollama_chat
ConfigResponses ==
  {Http(200, MessageBody(JStr(raw))) : raw \in ConfigRaws}
  \cup
  { ConnError,
    Http(500, <<"oops">>),
    Http(200, <<"<html>">>),
    Http(200, <<"null">>),
    Http(200, <<LBK, Q, "message", Q, RBK>>),
    Http(200, MessageBody(JNull)),
    Http(200, MessageBody(JNum(5))),
    Http(200, Dumps(JObj(<<P("message", S("hi"))>>))),
    Http(200, Dumps(JObj(<<P("message", JStr(<<"content">>))>>))),
    Http(200, Dumps(JObj(<<P("message", JNull)>>))),
    Http(200, Dumps(JObj(<<P("message", EmptyObj)>>))),
    Http(200, ChoicesBody(JList(<<JObj(<<P("message", JObj(<<P("content", S("hi"))>>))>>)>>))),
    Http(200, ChoicesBody(JList(<<JObj(<<P("message", JObj(<<P("content", JNull)>>))>>)>>))),
    Http(200, ChoicesBody(JList(<<S("x")>>))),
    Http(200, ChoicesBody(JList(<<>>))) }

\* What the user types to config_mcp_client.py
Questions ==
  { <<"hello">>, <<SP, "email", SP, "hôm", SP, "nay", NL>>, <<SP>>, <<"exit">>, <<"Quit">> }

\* What session.call_tool gives there
ConfigOutcomes ==
  { Raise("McpError"), ToolResult(JNull), ToolResult(W(JList(<<T1, T2>>))) }

NoToolsReply == JStr(<<"Chưa có tool nào">>)
ConfigToolError(tool_name, name) ==
  JStr(<<"Lỗi khi gọi tool '">> \o PyStr(tool_name) \o <<"': ", name>>)
\* session.call_tool(tool_name, arguments=arguments) on a session
SessionCall(k, name, arguments) == [session |-> k, name |-> name, arguments |-> arguments]

\* main(): connect_all_servers connects the servers in order; it raises on an
\* empty list and when a server fails, and main goes to cleanup
ConnectAll(confs) ==
  /\ pc = "start"
  /\ \E conf \in confs : \E n \in 0..Len(conf) :
       /\ tools' = Registry(conf, n)
       /\ pc' = IF conf # <<>> /\ n = Len(conf) THEN "input" ELSE "exit"
  /\ UNCHANGED <<session, queryVars, playVars>>

\* chat_loop, lines 287-299: read a line
ReadQuestion(typed) ==
  /\ pc = "input"
  /\ \E text \in typed : \E user_input \in {Strip(text)} :
       IF user_input = <<>> THEN UNCHANGED <<pc, queryVars>>
       ELSE IF Lower(user_input) \in {<<"exit">>, <<"quit">>}
       THEN pc' = "exit" /\ UNCHANGED queryVars
       ELSE /\ pc' = "called"
            /\ query' = user_input
            /\ UNCHANGED <<router, routerRaw, answer, gwCalls, toolCalls, toolOut, tracks>>
  /\ UNCHANGED <<tools, session, playVars>>

\* chat_loop at EOF or Ctrl-C
EndOfQuestions ==
  /\ pc = "input"
  /\ pc' = "exit"
  /\ UNCHANGED <<tools, session, queryVars, playVars>>

\* process_question, lines 225-231
RouteQuestion(responses) ==
  /\ pc = "called"
  /\ IF tools = <<>>
     THEN /\ pc' = "answered"
          /\ answer' = NoToolsReply
          /\ UNCHANGED <<router, routerRaw, gwCalls>>
     ELSE \E resp \in responses : \E raw \in {call_ollama_chat(resp)} :
            Routed(Config_ask_router(call_ollama_for_json(raw)), raw)
  /\ UNCHANGED <<tools, session, query, toolCalls, toolOut, tracks, playVars>>

\* what process_question returns for the value v of its last statement
Returned(v) == IF IsExc(v) THEN InternalError(v.v) ELSE v

\* process_question, lines 236-246: the direct chat
AnswerDirect(responses) ==
  /\ pc = "routed"
  /\ Downgrade(router.mode, tools) # "tool"
  /\ IF Downgrade(router.mode, tools) = "TypeError"
     THEN answer' = InternalError("TypeError") /\ UNCHANGED gwCalls
     ELSE \E resp \in responses :
            /\ answer' = Returned(call_ollama_chat(resp))
            /\ gwCalls' = gwCalls + 1
  /\ pc' = "answered"
  /\ UNCHANGED <<tools, session, query, router, routerRaw, toolCalls, toolOut, tracks, playVars>>

\* process_question dropping from self.tools a tool whose call failed
AnswerWithToolForgetting(outcomes, responses) ==
  /\ pc = "routed"
  /\ Downgrade(router.mode, tools) = "tool"
  /\ toolCalls' = <<SessionCall(DictGet(tools, router.mode.v, 0), router.mode, router.arguments)>>
  /\ \E o \in outcomes :
       /\ toolOut' = o
       /\ IF IsExc(o)
          THEN /\ answer' = ConfigToolError(router.mode, o.v)
               /\ tools' = SelectSeq(tools, LAMBDA kv : kv[1] # router.mode.v)
               /\ UNCHANGED gwCalls
          ELSE /\ UNCHANGED tools
               /\ \E resp \in responses :
                    /\ answer' = Returned(call_ollama_chat(resp))
                    /\ gwCalls' = gwCalls + 1
  /\ pc' = "answered"
  /\ UNCHANGED <<session, query, router, routerRaw, tracks, playVars>>

\* process_question, lines 248-277: the tool and the formatting of its result
AnswerWithTool(outcomes, responses) ==
  /\ pc = "routed"
  /\ Downgrade(router.mode, tools) = "tool"
  /\ toolCalls' = <<SessionCall(DictGet(tools, router.mode.v, 0), router.mode, router.arguments)>>
  /\ \E o \in outcomes :
       /\ toolOut' = o
       /\ IF IsExc(o)
          THEN answer' = ConfigToolError(router.mode, o.v) /\ UNCHANGED gwCalls
          ELSE \E resp \in responses :
                 /\ answer' = Returned(call_ollama_chat(resp))
                 /\ gwCalls' = gwCalls + 1
  /\ pc' = "answered"
  /\ UNCHANGED <<tools, session, query, router, routerRaw, tracks, playVars>>

\* chat_loop, line 302: print the answer and go back to input
PrintReply ==
  /\ pc = "answered"
  /\ pc' = "input"
  /\ ResetQuery
  /\ UNCHANGED <<tools, session, playVars>>

\* main(), finally: cleanup() closes the sessions
Close ==
  /\ pc = "exit"
  /\ pc' = "done"
  /\ UNCHANGED <<tools, session, queryVars, playVars>>

NextConfig ==
  \/ ConnectAll(ServerConfs)
  \/ ReadQuestion(Questions)
  \/ EndOfQuestions
  \/ RouteQuestion(ConfigResponses)
  \/ AnswerDirect(ConfigResponses)
  \/ AnswerWithTool(ConfigOutcomes, ConfigResponses)
  \/ PrintReply
  \/ Close

SpecConfig == Init /\ [][NextConfig]_vars

\* ------------------------------------------------------ either client
\* A run of one of the two programs: mcp_client.py, whose self.session is set
\* from connect_to_server on, or config_mcp_client.py, which has no such
\* field (its sessions are in self.sessions and self.tools).
NextEither ==
  \/ Connect
  \/ session /\ ReadInput(Queries)
  \/ session /\ EndOfInput
  \/ session /\ Route(Backends)
  \/ session /\ DispatchChat(Backends)
  \/ session /\ DispatchList(ToolOutcomes)
  \/ session /\ DispatchSearch(ToolOutcomes)
  \/ session /\ PrintAnswer
  \/ Cleanup
  \/ ConnectAll(ServerConfs)
  \/ ~session /\ ReadQuestion(Questions)
  \/ ~session /\ EndOfQuestions
  \/ ~session /\ RouteQuestion(ConfigResponses)
  \/ ~session /\ AnswerDirect(ConfigResponses)
  \/ ~session /\ AnswerWithTool(ConfigOutcomes, ConfigResponses)
  \/ ~session /\ PrintReply
  \/ ~session /\ Close

SpecEither == Init /\ [][NextEither]_vars

\* ============================================================== the claims
\* ask_router has returned to process_query
RouterReturned == pc \in {"routed", "answered"} /\ session

\* the model was asked and its answer is the text raw
ModelAnswered == router.called /\ IsStr(routerRaw)

\* C1: when the lower-cased query contains a play, list or search trigger,
\* ask_router returns without calling call_ollama, and the decision it
\* returns is the one it returns for that query whatever the model answers.
C1_RulePathSkipsModel ==
  (RouterReturned /\ HasRule(query)) =>
     /\ ~router.called
     /\ routerRaw = JNull
     /\ gwCalls = 0
     /\ router.exc = ""
     /\ \A b \in Backends : Music_ask_router(query, call_ollama(b.chat, b.gen)) = router

C1_Witness ==
  /\ pc = "routed"
  /\ query = <<"Phát", SP, "nhạc">>
  /\ router.mode = S("search_and_play")
  /\ ~router.called

\* the raw text is, as a whole, a JSON object with an allowed mode and a
\* mapping as arguments
WholeDecision(parsed) ==
  /\ parsed.t = "obj"
  /\ DictGet(parsed.v, <<"mode">>, JNull) \in AllowedModes
  /\ DictGet(parsed.v, <<"arguments">>, JNull).t = "obj"

\* the decision has the mode the model wrote and every argument it wrote
\* (the query argument may have been cleaned)
KeepsSupplied(decision, parsed) ==
  /\ decision.exc = ""
  /\ decision.mode = DictGet(parsed.v, <<"mode">>, JNull)
  /\ decision.arguments.t = "obj"
  /\ \A k \in DictKeys(DictGet(parsed.v, <<"arguments">>, JNull).v) :
       /\ DictHas(decision.arguments.v, k)
       /\ k # <<"query">> =>
            DictGet(decision.arguments.v, k, JNull)
              = DictGet(DictGet(parsed.v, <<"arguments">>, JNull).v, k, JNull)

\* C2: when no rule matched and the model's raw output is as a whole a JSON
\* object with an allowed mode and a mapping as arguments, ask_router returns
\* that mode and the arguments the model supplied, also when they are not
\* empty.
C2_ModelDecisionKept ==
  (RouterReturned /\ ModelAnswered /\ WholeDecision(Loads(routerRaw.v)))
    => KeepsSupplied(router, Loads(routerRaw.v))

\* C3: ConfigMCPClient.ask_router does not raise on a raw text that holds no
\* JSON object (text that does not parse, or a JSON array, string, number or
\* null): it returns the tool "none" with empty arguments.
C3_SafeDefault ==
  (ModelAnswered /\ Loads(routerRaw.v).t # "obj" /\ ~Contains(<<LB>>, routerRaw.v))
    => /\ router.exc = ""
       /\ router.mode = S("none")
       /\ router.arguments = JObj(<<>>)

\* the cases of the fallback: the extracted text does not parse, or it is not
\* an object, or its mode is missing or is none of the four
Unusable(parsed) ==
  \/ IsExc(parsed)
  \/ parsed.t # "obj"
  \/ ~DictHas(parsed.v, <<"mode">>)
  \/ DictGet(parsed.v, <<"mode">>, JNull) \notin AllowedModes

\* C4: in the model fallback, when the JSON extraction fails, or the parsed
\* value is not an object, or its mode is missing or not one of the four,
\* the decision is chat and nothing is raised; and every decision ask_router
\* returns has one of the four modes.
C4_FallbackIsChat ==
  /\ (RouterReturned /\ ModelAnswered /\ Unusable(Loads(ExtractJsonText(routerRaw.v))))
       => (router.exc = "" /\ router.mode = S("chat"))
  /\ pc = "routed" => router.mode \in AllowedModes

C4_Witness ==
  /\ pc = "routed"
  /\ routerRaw = JStr(Dumps(ModeArgs(S("dance"), EmptyObj)))
  /\ router.called
  /\ router.mode = S("chat")

\* the router of ConfigMCPClient named a tool that is a key of the registry
InRegistry(tool_name) == IsStr(tool_name) /\ DictHas(tools, tool_name.v)

\* the router named "none", or a name that is no key of the registry
NamesNoTool(tool_name) ==
  \/ tool_name = S("none")
  \/ tool_name.t \in {"str", "num", "bool", "null"} /\ ~InRegistry(tool_name)

C6_AnswerIsStr == pc = "answered" => IsStr(answer)

\* both requests have run their stop, load and play, and the stream is active
BothPlayed ==
  /\ Len(workers) = 2
  /\ workers[1].played
  /\ workers[2].played
  /\ workers[1].p # workers[2].p
  /\ mixer.busy

\* C7: when two play requests A then B were handed to play_audio_from_path in
\* that order and both threads have done their stop, load and play, the mixer
\* plays the file of B, the later request.
C7_LastRequestWins == BothPlayed => mixer.loaded = workers[2].p

\* a step of the pipeline: main() moves on, and is not at its cleanup
PipelineStep == pc' # pc /\ pc # "exit"

\* C8: in play mode process_query starts a thread and returns its reply at
\* once: the step that hands the file over adds one thread that has not run
\* yet and gives the reply, and no step of the pipeline touches the mixer or
\* a thread that exists, so that later queries are processed while a track
\* plays.
C8_PlaybackHandedOff ==
  [][ /\ PipelineStep =>
           /\ mixer' = mixer
           /\ mixerFlag' = mixerFlag
           /\ Len(workers') >= Len(workers)
           /\ SubSeq(workers', 1, Len(workers)) = workers
      /\ Len(workers') > Len(workers) =>
           /\ pc = "routed"
           /\ pc' = "answered"
           /\ router.mode = S("search_and_play")
           /\ Len(workers') = Len(workers) + 1
           /\ workers'[Len(workers')].pc = "check"
           /\ ~workers'[Len(workers')].played
           /\ IsStr(answer')
           /\ OccursAt(<<"Playing: **">>, answer'.v, 1)
    ]_vars

\* a list query is answered while the track of an earlier play query plays
C8_Witness ==
  /\ pc = "answered"
  /\ router.mode = S("list")
  /\ IsStr(answer)
  /\ OccursAt(ListHeader, answer.v, 1)
  /\ Len(workers) = 1
  /\ workers[1].pc = "wait"
  /\ mixer.busy

IsListing(reply) ==
  /\ IsStr(reply)
  /\ \/ OccursAt(ListHeader, reply.v, 1)
     \/ OccursAt(<<"Tìm thấy ">>, reply.v, 1)

\* the tool answered and its normalized result is empty
EmptyResult ==
  /\ pc = "answered"
  /\ toolCalls # <<>>
  /\ toolOut.t = "toolresult"
  /\ tracks = <<>>

\* C10: when the tool call succeeds and the normalized result is empty, list
\* mode answers with its nothing-found message and search and play mode with
\* theirs, which quotes the search term and differs from that of list mode;
\* neither answers with a numbered list without entries.
C10_NothingFound ==
  EmptyResult =>
    /\ ~IsListing(answer)
    /\ router.mode = S("list") =>
         answer = JStr(<<"Không tìm thấy file nhạc nào trong thư mục cấu hình.">>)
    /\ router.mode \in {S("search"), S("search_and_play")} =>
         /\ IsStr(answer)
         /\ OccursAt(<<"Không tìm thấy bài hát nào trùng với từ khóa '">>
                       \o PyStr(DictGet(toolCalls[1].arguments.v, <<"query">>, JNull))
                       \o <<"'.">>, answer.v, 1)
         /\ answer # JStr(<<"Không tìm thấy file nhạc nào trong thư mục cấu hình.">>)

C10_Witness ==
  /\ EmptyResult
  /\ router.mode = S("search_and_play")
  /\ toolOut = ToolResult(Wrap(JList(<<>>), 2))
  /\ toolCalls[1].arguments = JObj(<<P("query", S("em")), P("limit", JNum(1))>>)

\* search_and_play got a result whose first record is a mapping
PlayCase ==
  /\ pc = "answered"
  /\ router.mode = S("search_and_play")
  /\ toolOut.t = "toolresult"
  /\ tracks # <<>>
  /\ tracks[1].t = "obj"

\* C11: in search_and_play mode with a result that is not empty,
\* process_query acts on the first record only: for either outcome of
\* os.path.exists the reply and the playback are those of a result that holds
\* the first record alone; the file is played and success reported exactly
\* when the first record has a locator and the file exists; without a locator
\* the reply is the no-locator message, with a locator and no file the
\* missing-file message, and the two differ.
C11_FirstRecordOnly ==
  PlayCase =>
    LET case(first, whole, alone) ==
          /\ first.exc = ""
          /\ \A e \in BOOLEAN :
               /\ whole[e].answer = alone[e].answer
               /\ whole[e].play = alone[e].play
               /\ (whole[e].play # JNull) <=> (Truthy(first.path) /\ e)
               /\ whole[e].play # JNull =>
                    /\ whole[e].play = first.path
                    /\ whole[e].answer = PlayingReply(first.name)
               /\ ~Truthy(first.path) => whole[e].answer = NoPathReply(first.name)
               /\ (Truthy(first.path) /\ ~e) =>
                    whole[e].answer = MissingFileReply(first.name, first.path)
          /\ NoPathReply(first.name) # MissingFileReply(first.name, first.path)
          /\ \E e \in BOOLEAN : answer = whole[e].answer
          /\ answer = PlayingReply(first.name) =>
               /\ workers # <<>>
               /\ workers[Len(workers)].p = first.path
          /\ Len(toolCalls) = 1
    IN case(_extract_track_info(tracks[1]),
            [e \in BOOLEAN |->
               SearchBranch(query, router.mode, router.arguments, toolOut, e)],
            [e \in BOOLEAN |->
               SearchBranch(query, router.mode, router.arguments,
                            ToolResult(JList(<<tracks[1]>>)), e)])

\* the first record has a locator but no file, the second could be played:
\* the reply is the missing-file message and nothing is played
C11_Witness ==
  /\ PlayCase
  /\ tracks = <<T3, T1>>
  /\ answer = MissingFileReply(S("Remix"), S("/music/remix.mp3"))
  /\ workers = <<>>

\* the text of a tool name: a str of the code (mcp_client.py) or the str value
\* the router gave (config_mcp_client.py)
NameText(name) == IF session THEN <<name>> ELSE PyStr(name)

ModeAndLimit(mode, limit) ==
  /\ router.exc = ""
  /\ router.mode = S(mode)
  /\ router.arguments.t = "obj"
  /\ DictGet(router.arguments.v, <<"limit">>, JNull) = JNum(limit)

\* C13: the rule sets are tried in the order play, list, search and the
\* first set with a trigger in the lower-cased query decides: a play trigger
\* gives search_and_play with limit 1 whatever else the query holds; without
\* one, a list trigger gives list with limit 10; without either, a search
\* trigger gives search with limit 5.
C13_RulePriority ==
  RouterReturned =>
    /\ AnyIn(PlayTriggers, Lower(query)) => ModeAndLimit("search_and_play", 1)
    /\ (~AnyIn(PlayTriggers, Lower(query)) /\ AnyIn(ListTriggers, Lower(query)))
         => ModeAndLimit("list", 10)
    /\ (~AnyIn(PlayTriggers, Lower(query)) /\ ~AnyIn(ListTriggers, Lower(query))
          /\ AnyIn(SearchTriggers, Lower(query)))
         => ModeAndLimit("search", 5)

\* a query with a play trigger and a list trigger is routed to play
C13_Witness ==
  /\ pc = "routed"
  /\ query = <<"play", SP, "tất", SP, "cả">>
  /\ AnyIn(ListTriggers, Lower(query))
  /\ ModeAndLimit("search_and_play", 1)

\* C14: a plain sequence of records is normalized to the same records in the
\* same order, and normalizing the normalizer's own output, handed back as a
\* payload, returns it unchanged.
C14_PlainSequenceKept ==
  (pc = "answered" /\ toolOut.t = "toolresult") =>
    /\ toolOut.v.t = "list" => tracks = toolOut.v.v
    /\ _parse_tool_result(ToolResult(JList(tracks))) = tracks

\* two records arrive as a plain list and stay in their order
C14_Witness ==
  /\ pc = "answered"
  /\ toolOut = ToolResult(JList(<<T2, T1>>))
  /\ tracks = <<T2, T1>>

\* a rule routed the query and search_local_music was called
RuleSearchCalled ==
  /\ pc = "answered"
  /\ session
  /\ router.exc = ""
  /\ ~router.called
  /\ toolCalls # <<>>
  /\ toolCalls[1].name = "search_local_music"

\* C15: on the rule path, when cleaning removes every word of the query, the
\* search term handed to the tool is the original query text (as typed or
\* lower-cased), so that search_local_music is never called with an empty
\* query.
C15_CleanedQueryFallsBack ==
  RuleSearchCalled =>
    LET term(sent) ==
          /\ sent # JStr(<<>>)
          /\ _clean_query_from_user_input(JStr(query)) = JStr(<<>>)
               => sent \in {JStr(query), JStr(Lower(query))}
    IN term(DictGet(toolCalls[1].arguments.v, <<"query">>, JNull))

\* the value the router read from the model's text: json.loads of the
\* extracted text in mcp_client.py, call_ollama_for_json in
\* config_mcp_client.py
ParsedDecision ==
  IF session THEN Loads(ExtractJsonText(routerRaw.v)) ELSE call_ollama_for_json(routerRaw)

\* the model's decision object has arguments that are a list, a str, a number
\* or a boolean
ArgumentsNotMapping(parsed) ==
  /\ parsed.t = "obj"
  /\ DictGet(parsed.v, <<"arguments">>, JObj(<<>>)).t \in {"list", "str", "num", "bool"}

\* C16: in either router, when the decision object of the model has
\* arguments that are not a mapping, ask_router returns normally and the
\* decision has the empty mapping as arguments.
C16_ArgumentsBecomeMapping ==
  (pc \in {"routed", "answered"} /\ ModelAnswered /\ ArgumentsNotMapping(ParsedDecision))
    => /\ router.exc = ""
       /\ router.arguments = JObj(<<>>)

\* C17: a payload without the wrapper key that is a mapping, the empty one
\* included, is normalized to the one record that is the payload; a payload
\* that is a scalar, null or absent is normalized to the empty sequence.
C17_MappingIsOneRecord ==
  (pc = "answered" /\ toolOut.t = "toolresult") =>
    /\ (toolOut.v.t = "obj" /\ ~DictHas(toolOut.v.v, <<"result">>))
         => tracks = <<toolOut.v>>
    /\ toolOut.v.t \in {"null", "num", "str", "bool"} => tracks = <<>>

\* the arguments of the model's decision object (the empty mapping when it
\* has none)
ModelArguments(parsed) == DictGet(parsed.v, <<"arguments">>, JObj(<<>>))

\* the model fallback read a decision with an allowed mode other than chat
\* and no limit
NoLimit(parsed) ==
  /\ parsed.t = "obj"
  /\ DictGet(parsed.v, <<"mode">>, JNull) \in {S("list"), S("search"), S("search_and_play")}
  /\ ~(ModelArguments(parsed).t = "obj" /\ DictHas(ModelArguments(parsed).v, <<"limit">>))

\* the model's decision has no query either
NoQuery(parsed) ==
  ~(ModelArguments(parsed).t = "obj" /\ DictHas(ModelArguments(parsed).v, <<"query">>))

DefaultLimit(mode) ==
  IF mode = S("list") THEN JNum(10) ELSE IF mode = S("search") THEN JNum(5) ELSE JNum(1)

\* the decision has the model's mode, the default limit of that mode and, in
\* search and search_and_play mode when the model gave no query, the
\* cleaned text of the user as query
DefaultsFilled(parsed) ==
  /\ router.exc = ""
  /\ router.mode = DictGet(parsed.v, <<"mode">>, JNull)
  /\ router.arguments.t = "obj"
  /\ DictGet(router.arguments.v, <<"limit">>, JNull) = DefaultLimit(router.mode)
  /\ (router.mode # S("list") /\ NoQuery(parsed)) =>
       DictGet(router.arguments.v, <<"query">>, JNull)
         = _clean_query_from_user_input(JStr(query))

\* C18: whenever the model fallback yields an allowed mode other than chat
\* without a limit, the returned arguments hold the default limit of the
\* mode (list 10, search 5, search_and_play 1), and in search and
\* search_and_play mode a missing query is the cleaned text of the user.
C18_DefaultsFilled ==
  (RouterReturned /\ ModelAnswered /\ NoLimit(Loads(ExtractJsonText(routerRaw.v))))
    => DefaultsFilled(Loads(ExtractJsonText(routerRaw.v)))

\* list or search mode got a result that is not empty, with a number as
\* limit, and the records it shows are mappings
ListingCase ==
  /\ pc = "answered"
  /\ router.mode \in {S("list"), S("search")}
  /\ toolOut.t = "toolresult"
  /\ tracks # <<>>
  /\ DictGet(router.arguments.v, <<"limit">>, JNull).t = "num"
  /\ \A i \in 1..Len(tracks) :
       i <= DictGet(router.arguments.v, <<"limit">>, JNull).v => tracks[i].t = "obj"

\* the i-th line of a numbered list: "i. name"
NumberedLine(i) == <<ToString(i), ". ">> \o PyStr(_extract_track_info(tracks[i]).name)

\* the reply is the header, n lines numbered 1..n with the names of the
\* first n records in their order, and the hint
NumberedReply(header, n, hint) ==
  answer = JStr(header \o Join(<<NL>>, [i \in 1..n |-> NumberedLine(i)]) \o hint)

\* C19: in list and search mode the reply is composed without the gateway:
\* no call_ollama after routing, and none at all when a rule routed the
\* query; and the reply on a result that is not empty is the header, the
\* names of the first min(limit, number of records) records in source order,
\* numbered from 1, and the hint.
C19_NumberedListNoGateway ==
  /\ (pc = "answered" /\ router.exc = "" /\ router.mode \in {S("list"), S("search")} /\ session)
       => gwCalls = (IF router.called THEN 1 ELSE 0)
  /\ ListingCase =>
       LET shown(limit) ==
             IF router.mode = S("list")
             THEN NumberedReply(ListHeader, Min({limit, Len(tracks)}), ListHint)
             ELSE NumberedReply(
                    SearchHeader(Len(tracks), DictGet(router.arguments.v, <<"query">>, JStr(<<>>))),
                    Min({limit, Len(tracks)}), SearchHint)
       IN shown(DictGet(router.arguments.v, <<"limit">>, JNull).v)

\* a search with limit 2 on three records shows the first two, the second
\* under the name of a record without one
C19_Witness ==
  /\ ListingCase
  /\ router.mode = S("search")
  /\ tracks = <<T1, T4, T3>>
  /\ answer = JStr(SearchHeader(3, S("hello"))
                     \o <<"1", ". ", "Em", NL, "2", ". ", "Unknown track">> \o SearchHint)

\* the positions in keys of the aliases the record has with a value that is
\* not empty
Filled(record, keys) ==
  {i \in 1..Len(keys) :
     DictHas(record.v, <<keys[i]>>) /\ Truthy(DictGet(record.v, <<keys[i]>>, JNull))}

\* the value of the first such alias, or default
FirstFilled(record, keys, default) ==
  IF Filled(record, keys) = {} THEN default
  ELSE DictGet(record.v, <<keys[Min(Filled(record, keys))]>>, JNull)

\* C20: for every record, _extract_track_info gives as name the value of the
\* first of track_name, name, title, song_name that the record has with a
\* value that is not empty, or 'Unknown track'; and as locator the value of
\* the first of file_path, path, file, filepath that it has with a value that
\* is not empty, or None; an empty earlier alias does not hide a later one.
C20_FirstFilledAlias ==
  pc = "answered" =>
    \A i \in 1..Len(tracks) :
      tracks[i].t = "obj" =>
        /\ _extract_track_info(tracks[i]).exc = ""
        /\ _extract_track_info(tracks[i]).name
             = FirstFilled(tracks[i], <<"track_name", "name", "title", "song_name">>,
                           JStr(<<"Unknown track">>))
        /\ _extract_track_info(tracks[i]).path
             = FirstFilled(tracks[i], <<"file_path", "path", "file", "filepath">>, JNull)

\* the first record has an empty track_name and an empty file_path: it is
\* played under its title, from its file
C20_Witness ==
  /\ pc = "answered"
  /\ router.mode = S("search_and_play")
  /\ tracks # <<>>
  /\ tracks[1] = T3
  /\ answer = PlayingReply(S("Remix"))
  /\ workers # <<>>
  /\ workers[Len(workers)].p = S("/music/remix.mp3")

\* C21: call_ollama and call_ollama_chat never raise: whatever the backend
\* answered (no connection, an error status, a body that is not JSON, JSON of
\* another shape such as null or an array), what the router received from
\* the gateway is a str.
C21_GatewayReturnsText ==
  router.called => IsStr(routerRaw)

\* a line the loop hands to process_query / process_question
Processable(q) ==
  /\ q # <<>>
  /\ q = Strip(q)
  /\ Lower(q) \notin {<<"exit">>, <<"quit">>}

\* the loop is between two inputs: nothing of an earlier query is pending
BetweenInputs ==
  /\ pc = "input"
  /\ query = <<>>
  /\ router = NoDecision
  /\ answer = JNull
  /\ gwCalls = 0
  /\ toolCalls = <<>>

\* C22: both chat loops process one query at a time, in arrival order: a line
\* is read only between two inputs, that is after the answer to the line
\* before it was returned and printed; the query stays the same until its own
\* answer is printed, and printing is the only way on from an answer; a blank
\* line and exit/quit never reach the router.
C22_OneAtATime ==
  [][ /\ (query' # query /\ query' # <<>>) =>
           (BetweenInputs /\ pc' = "called" /\ Processable(query'))
      /\ (pc \in {"called", "routed"}) =>
           (query' = query /\ pc' \in {pc, "routed", "answered"})
      /\ (pc = "answered" /\ pc' # "answered") =>
           (pc' = "input" /\ query' = <<>> /\ answer' = JNull)
      /\ (pc' = "called" \/ router' # NoDecision \/ gwCalls' > 0 \/ toolCalls' # <<>>) =>
           Processable(query')
    ]_vars

\* mcp_client.py is about to print the answer to a query that called no
\* tool, after an earlier query was answered and had started a playback
C22_Witness ==
  /\ session
  /\ pc = "answered"
  /\ Processable(query)
  /\ IsStr(answer)
  /\ toolCalls = <<>>
  /\ workers # <<>>

\* connect_all_servers has returned or raised
AfterDiscovery == pc # "start"

\* C23: once connect_all_servers has finished, no step of
\* config_mcp_client.py changes the registry: the routing, the direct chat
\* and the tool call, whether they succeed, fail or raise, and the loop
\* around them leave every tool name and the session it is served by as
\* discovery recorded them.
C23_RegistryFrozen ==
  [][AfterDiscovery => tools' = tools]_vars

\* a tool served by the second of two servers has just failed, and the
\* registry is the one discovery built
C23_Witness ==
  /\ pc = "answered"
  /\ IsExc(toolOut)
  /\ toolCalls # <<>>
  /\ \E conf \in ServerConfs :
       /\ Len(conf) = 2
       /\ tools = Registry(conf, 2)
       /\ DictGet(tools, router.mode.v, 0) = 2

\* C24: init_mixer_once initializes the mixer at most once per process:
\* however the playback threads of successive play requests interleave,
\* pygame.mixer.init() has succeeded no more than one time.
C24_InitAtMostOnce ==
  mixer.inits <= 1
====
